---------------------------- MODULE Spec2Model ----------------------------
(* Model of BMO-Backend's conversation core:                               *)
(*   app/services/conversation.py  ConversationService                     *)
(*   app/services/speech.py        SpeechService.synthesize                *)
(* The session store (app/services/session_store.py) and the chat backend  *)
(* client (app/services/openrouter.py) are collaborators; the store follows *)
(* its contract (create / append / get_history), the backend and the       *)
(* speech provider answer nondeterministically.                            *)
EXTENDS Integers, Sequences, FiniteSets, TLC

(***************************************************************************)
(* Bounds of the model                                                     *)
(***************************************************************************)
MaxSessions == 1    \* size of the pool session ids are drawn from
MaxFaults == 3      \* failing backend answers in a behaviour whose calls run one at a time
MaxOverlapFaults == 1   \* failing backend answers in a behaviour whose calls overlap

(***************************************************************************)
(* Program constants                                                       *)
(***************************************************************************)
Retries == 3                  \* _chat_with_retry(retries=3)
InitialDelay == 1             \* delay = 1.0
AuthStatus == 401
RateLimitStatus == 429
BadGatewayStatus == 502

SYSTEM_PROMPT == "You are BMO"
DefaultGreeting == "Hello! I am BMO"
FallbackNarration == "Let me find that for you."
DefaultDestination == "General"
DefaultMode == "SPEAKING"

AuthDetail == "OpenRouter rejected the API key (401)"
RateLimitDetail == "OpenRouter rate limit reached"
RejectedDetail == "OpenRouter rejected the request"
UnreachableDetail == "Could not reach OpenRouter"
UnavailableDetail == "OpenRouter is unavailable right now"
AllFailedPrefix == "All OpenRouter models failed. "
InvalidJsonDetail == "Model returned invalid JSON"
TtsFailedDetail == "TTS failed"

(***************************************************************************)
(* Inputs                                                                  *)
(***************************************************************************)
Requests == {"r1", "r2"}          \* concurrently running generate_response calls
SessionIds == 1..MaxSessions
Transcripts == {"where is the library"}
\* configured openrouter_model ("" = not configured) and openrouter_models
PreferredModels == {"", "A"}
ConfiguredLists == {<<>>, <<"B", "A">>, <<"B", "C">>, <<"B", "B">>}
\* status codes an httpx.HTTPStatusError of the backend may carry
StatusCodes == {AuthStatus, RateLimitStatus, 500}

(***************************************************************************)
(* ConversationService.__init__: the Model Candidate List                  *)
(***************************************************************************)
Settings ==
    [openrouter_model : PreferredModels,
     openrouter_models : ConfiguredLists,
     default_greeting : {DefaultGreeting}]

InSeq(x, s) == \E i \in 1..Len(s) : s[i] = x

\* models = list(settings.openrouter_models or [])
\* if settings.openrouter_model and settings.openrouter_model not in models:
\*     models.insert(0, settings.openrouter_model)
\* self.model_candidates = models or [settings.openrouter_model]
BuildCandidates(cfg) ==
    LET models == cfg.openrouter_models
        withPreferred ==
            IF cfg.openrouter_model # "" /\ ~InSeq(cfg.openrouter_model, models)
            THEN <<cfg.openrouter_model>> \o models
            ELSE models
    IN IF withPreferred # <<>> THEN withPreferred ELSE <<cfg.openrouter_model>>

(***************************************************************************)
(* The chat backend's answers to one call (openrouter.chat)                *)
(***************************************************************************)
\* raw completions the backend may return
RawTexts ==
    {"not json",
     "[]",
     "{\"narration\":\"Turn left\",\"directions\":[\"left\"],\"mode\":\"NAVIGATING\"}"}

OkOutcome(text) == [type |-> "ok", status |-> 0, text |-> text]
StatusOutcome(code) == [type |-> "HTTPStatusError", status |-> code, text |-> ""]
RequestErrorOutcome == [type |-> "RequestError", status |-> 0, text |-> ""]

ChatOutcomes ==
    {OkOutcome(t) : t \in RawTexts}
        \cup {StatusOutcome(c) : c \in StatusCodes}
        \cup {RequestErrorOutcome}

(***************************************************************************)
(* _chat_with_retry: what one attempt's outcome leads to                   *)
(***************************************************************************)
Return(text) == [kind |-> "return", text |-> text, status |-> 0, detail |-> ""]
Sleep == [kind |-> "sleep", text |-> "", status |-> 0, detail |-> ""]
Raise(code, detail) == [kind |-> "raise", text |-> "", status |-> code, detail |-> detail]

\* a variant that retries every status but 401
OnStatusErrorRetriesAll(status_code, attempt) ==
    IF status_code = AuthStatus THEN Raise(AuthStatus, AuthDetail)
    ELSE IF attempt < Retries - 1 THEN Sleep
    ELSE Raise(IF status_code # 0 THEN status_code ELSE BadGatewayStatus,
               IF status_code = RateLimitStatus THEN RateLimitDetail ELSE RejectedDetail)

\* a variant that never retries a 429
OnStatusErrorNoRateRetry(status_code, attempt) ==
    IF status_code = AuthStatus THEN Raise(AuthStatus, AuthDetail)
    ELSE Raise(IF status_code # 0 THEN status_code ELSE BadGatewayStatus,
               IF status_code = RateLimitStatus THEN RateLimitDetail ELSE RejectedDetail)

\* except httpx.HTTPStatusError, on the attempt numbered `attempt` (0-based)
OnStatusError(status_code, attempt) ==
    IF status_code = AuthStatus THEN Raise(AuthStatus, AuthDetail)
    ELSE IF status_code = RateLimitStatus /\ attempt < Retries - 1 THEN Sleep
    ELSE Raise(IF status_code # 0 THEN status_code ELSE BadGatewayStatus,
               IF status_code = RateLimitStatus THEN RateLimitDetail ELSE RejectedDetail)

\* a variant that gives up on the first network failure
OnRequestErrorNoRetry(attempt) == Raise(BadGatewayStatus, UnreachableDetail)

\* except httpx.RequestError
OnRequestError(attempt) ==
    IF attempt < Retries - 1 THEN Sleep ELSE Raise(BadGatewayStatus, UnreachableDetail)

\* a variant that does not return the completion: the loop goes on
RetryStepDropsResult(outcome, attempt) ==
    IF outcome.type = "ok"
    THEN IF attempt < Retries - 1 THEN Sleep ELSE Raise(BadGatewayStatus, UnavailableDetail)
    ELSE IF outcome.type = "HTTPStatusError" THEN OnStatusError(outcome.status, attempt)
    ELSE OnRequestError(attempt)

\* the body of `for attempt in range(retries)` for the attempt whose backend
\* call ended with `outcome`
RetryStep(outcome, attempt) ==
    IF outcome.type = "ok" THEN Return(outcome.text)
    ELSE IF outcome.type = "HTTPStatusError" THEN OnStatusError(outcome.status, attempt)
    ELSE OnRequestError(attempt)

(***************************************************************************)
(* _chat_with_models: what a candidate's HTTPException leads to            *)
(***************************************************************************)
\* a variant without the 401 check
ReraisedNever(exc) == FALSE

\* if exc.status_code == 401: raise
Reraised(exc) == exc.status = AuthStatus

\* a variant that keeps only the latest reason
RecordErrorOverwrites(errors, model, exc) == <<[model |-> model, detail |-> exc.detail]>>

\* errors.append(f"{model}: {exc.detail}")
RecordError(errors, model, exc) ==
    Append(errors, [model |-> model, detail |-> exc.detail])

(***************************************************************************)
(* generate_response: decoding and defaulting                              *)
(***************************************************************************)
\* a decoded JSON object: the keys it holds and their values (the value of a
\* key it does not hold is never read)
Dict(present, narration, destination, directions, mode) ==
    [present |-> present, narration |-> narration, destination |-> destination,
     directions |-> directions, mode |-> mode]

EmptyDict == Dict({}, "", "", <<>>, "")

\* json.loads on the raw completions of RawTexts
JsonLoads(raw) ==
    CASE raw = "not json" -> [ok |-> FALSE, type |-> "none", value |-> EmptyDict]
      [] raw = "[]" -> [ok |-> TRUE, type |-> "list", value |-> EmptyDict]
      [] raw = "{}" -> [ok |-> TRUE, type |-> "dict", value |-> EmptyDict]
      [] raw = "{\"narration\":\"Turn left\",\"directions\":[\"left\"],\"mode\":\"NAVIGATING\"}" ->
            [ok |-> TRUE, type |-> "dict",
             value |-> Dict({"narration", "directions", "mode"},
                            "Turn left", "", <<"left">>, "NAVIGATING")]

\* a variant that defaults a key only when the object does not hold it
GetTextOrMissingOnly(parsed, key, default) ==
    IF key \in parsed.present THEN parsed[key] ELSE default

\* parsed.get(key) or default, for the text-valued keys
GetTextOr(parsed, key, default) ==
    IF key \in parsed.present /\ parsed[key] # "" THEN parsed[key] ELSE default

\* parsed.get(key) or [], for the list-valued key
GetListOr(parsed, key) ==
    IF key \in parsed.present THEN parsed[key] ELSE <<>>

\* lines 59-62 of generate_response
Normalise(parsed) ==
    [narration |-> GetTextOr(parsed, "narration", FallbackNarration),
     destination |-> GetTextOr(parsed, "destination", DefaultDestination),
     directions |-> GetListOr(parsed, "directions"),
     mode |-> GetTextOr(parsed, "mode", DefaultMode)]

(***************************************************************************)
(* The session store, by its contract                                      *)
(***************************************************************************)
Turn(role, content) == [role |-> role, content |-> content]

StoreHas(store, id) == id \in DOMAIN store

\* create(sessionId): registers an empty turn sequence
StoreCreate(store, id) == [i \in DOMAIN store \cup {id} |-> IF i = id THEN <<>> ELSE store[i]]

\* append(sessionId, role, content): appends a Turn at the end
StoreAppend(store, id, role, content) ==
    [store EXCEPT ![id] = Append(@, Turn(role, content))]

\* getHistory(sessionId): a snapshot in append order
StoreHistory(store, id) == store[id]

(***************************************************************************)
(* State                                                                   *)
(***************************************************************************)
VARIABLES
    settings,           \* ConversationService.settings
    model_candidates,   \* ConversationService.model_candidates
    sessions,           \* the session store: session id -> sequence of Turns
    req,                \* each generate_response call: its locals and position
    faults,             \* failing backend answers so far
    overlapped,         \* whether two generate_response calls have run at once
    lastStart           \* what the latest start_session call ended with

vars == <<settings, model_candidates, sessions, req, faults, overlapped, lastStart>>

NoError == [exc |-> "", status |-> 0, detail |-> "", errors |-> <<>>]
HTTPException(code, detail) ==
    [exc |-> "HTTPException", status |-> code, detail |-> detail, errors |-> <<>>]
NoResponse == [narration |-> "", destination |-> "", directions |-> <<>>, mode |-> ""]

IdleRequest ==
    [pc |-> "idle",
     session_id |-> 0,
     transcript |-> "",
     messages |-> <<>>,          \* the context passed to the backend
     candidate |-> 0,            \* position in model_candidates (1-based)
     attempt |-> 0,              \* `attempt` of _chat_with_retry
     delay |-> 0,                \* `delay` of _chat_with_retry
     errors |-> <<>>,            \* `errors` of _chat_with_models
     raw_json |-> "",
     parsed |-> EmptyDict,       \* the decoded object
     response |-> NoResponse,    \* narration, destination, directions, mode
     error |-> NoError,          \* the exception the call ended with
     calls |-> <<>>,             \* backend calls issued, with their answers
     waits |-> <<>>,             \* asyncio.sleep durations
     synthesized |-> <<>>,       \* texts handed to synthesize
     appended |-> <<>>,          \* Turns this call appended to the store
     user_at |-> 0,              \* where in the history its user Turn went
     assistant_at |-> 0]         \* where in the history its assistant Turn went

Init ==
    /\ settings \in Settings
    /\ model_candidates = BuildCandidates(settings)
    /\ sessions = <<>>
    /\ req = [r \in Requests |-> IdleRequest]
    /\ faults = 0
    /\ overlapped = FALSE
    /\ lastStart = [session_id |-> 0, message |-> ""]

(***************************************************************************)
(* start_session                                                           *)
(***************************************************************************)
\* a variant that registers the session without its greeting
StartSessionNoGreeting(id) ==
    /\ ~StoreHas(sessions, id)
    /\ \A other \in SessionIds : other < id => StoreHas(sessions, other)
    /\ sessions' = StoreCreate(sessions, id)
    /\ lastStart' = [session_id |-> id, message |-> DefaultGreeting]
    /\ UNCHANGED <<settings, model_candidates, req, faults, overlapped>>

\* session_id = str(uuid.uuid4()); create; append the greeting; return both.
\* `id` is the identifier uuid4 produced: one it has not produced before.
\* Identifiers are opaque, so the pool is used in increasing order.
StartSession(id) ==
    /\ ~StoreHas(sessions, id)
    /\ \A other \in SessionIds : other < id => StoreHas(sessions, other)
    /\ sessions' = StoreAppend(StoreCreate(sessions, id), id,
                               "assistant", settings.default_greeting)
    /\ lastStart' = [session_id |-> id, message |-> settings.default_greeting]
    /\ UNCHANGED <<settings, model_candidates, req, faults, overlapped>>

(***************************************************************************)
(* _chat_with_models / _chat_with_retry: moving through the candidates     *)
(***************************************************************************)
Fail(rq, error) == [rq EXCEPT !.pc = "failed", !.error = error]

\* self.openrouter.chat(messages, model=model) is issued
IssueCall(rq) ==
    [rq EXCEPT !.pc = "chat",
               !.calls = Append(@, [candidate |-> rq.candidate,
                                    model |-> model_candidates[rq.candidate],
                                    attempt |-> rq.attempt,
                                    type |-> "pending", status |-> 0, text |-> ""])]

\* the call in flight is answered
Answered(rq, outcome) ==
    [rq EXCEPT !.calls[Len(rq.calls)].type = outcome.type,
               !.calls[Len(rq.calls)].status = outcome.status,
               !.calls[Len(rq.calls)].text = outcome.text]

\* _chat_with_retry(messages, model=model_candidates[k]) is entered
StartCandidate(rq, k) ==
    IssueCall([rq EXCEPT !.candidate = k, !.attempt = 0, !.delay = InitialDelay])

\* _chat_with_models: _chat_with_retry raised `exc` for the current candidate
ModelFailed(rq, exc) ==
    IF Reraised(exc)
    THEN Fail(rq, HTTPException(exc.status, exc.detail))
    ELSE LET recorded ==
                 [rq EXCEPT !.errors =
                     RecordError(rq.errors, model_candidates[rq.candidate], exc)]
         IN IF rq.candidate < Len(model_candidates)
            THEN StartCandidate(recorded, rq.candidate + 1)
            ELSE Fail(recorded,
                      [exc |-> "HTTPException", status |-> BadGatewayStatus,
                       detail |-> AllFailedPrefix, errors |-> recorded.errors])

\* await asyncio.sleep(delay)
BeginSleep(rq) ==
    [rq EXCEPT !.pc = "sleep",
               !.waits = Append(@, [candidate |-> rq.candidate, delay |-> rq.delay])]

\* a variant that waits the same time before every retry
EndSleepKeepsDelay(rq) ==
    LET next == [rq EXCEPT !.attempt = @ + 1]
    IN IF next.attempt < Retries
       THEN IssueCall(next)
       ELSE ModelFailed(next, Raise(BadGatewayStatus, UnavailableDetail))

\* a variant that does not count the attempt it retried
EndSleepKeepsAttempt(rq) ==
    LET next == [rq EXCEPT !.delay = 2 * @]
    IN IF next.attempt < Retries
       THEN IssueCall(next)
       ELSE ModelFailed(next, Raise(BadGatewayStatus, UnavailableDetail))


\* delay *= 2; continue: the next attempt, or the end of the loop
EndSleep(rq) ==
    LET next == [rq EXCEPT !.delay = 2 * @, !.attempt = @ + 1]
    IN IF next.attempt < Retries
       THEN IssueCall(next)
       ELSE ModelFailed(next, Raise(BadGatewayStatus, UnavailableDetail))

(***************************************************************************)
(* generate_response                                                       *)
(***************************************************************************)
InFlight(r) == req[r].pc \in {"chat", "sleep", "synth"}

\* failing backend answers the behaviour may still see
FaultLimit == IF overlapped THEN MaxOverlapFaults ELSE MaxFaults

UnknownSessionError ==
    [exc |-> "UnknownSessionError", status |-> 0, detail |-> "", errors |-> <<>>]

\* line 50 on a session the store does not hold: append raises
RejectTurn(r, rq) ==
    /\ req' = [req EXCEPT ![r] = Fail(rq, UnknownSessionError)]
    /\ UNCHANGED sessions

\* a variant that stores the system instruction ahead of the user Turn
AcceptTurnStoresSystem(r, rq, store) ==
    LET prompted == StoreAppend(store, rq.session_id, "system", SYSTEM_PROMPT)
        appended == StoreAppend(prompted, rq.session_id, "user", rq.transcript)
        history == StoreHistory(appended, rq.session_id)
    IN /\ sessions' = appended
       /\ req' = [req EXCEPT ![r] =
                    StartCandidate(
                        [rq EXCEPT !.messages = history,
                                   !.appended = Append(@, Turn("user", rq.transcript)),
                                   !.user_at = Len(appended[rq.session_id])],
                        1)]


\* lines 50-53 on a session of `store`: append the user Turn, read the
\* history, prepend the system instruction, enter the fallback loop
AcceptTurn(r, rq, store) ==
    LET appended == StoreAppend(store, rq.session_id, "user", rq.transcript)
        history == StoreHistory(appended, rq.session_id)
        messages == <<Turn("system", SYSTEM_PROMPT)>> \o history
    IN /\ sessions' = appended
       /\ req' = [req EXCEPT ![r] =
                    StartCandidate(
                        [rq EXCEPT !.messages = messages,
                                   !.appended = Append(@, Turn("user", rq.transcript)),
                                   !.user_at = Len(appended[rq.session_id])],
                        1)]

\* a variant that registers a session the store does not hold
GenerateResponseCreatesSession(r, session_id, transcript) ==
    /\ req[r].pc = "idle"
    /\ LET overlaps == \E q \in Requests \ {r} : InFlight(q)
       IN /\ overlaps => faults <= MaxOverlapFaults
          /\ overlapped' = (overlapped \/ overlaps)
    /\ LET rq == [req[r] EXCEPT !.session_id = session_id, !.transcript = transcript]
       IN IF StoreHas(sessions, session_id)
          THEN AcceptTurn(r, rq, sessions)
          ELSE AcceptTurn(r, rq, StoreCreate(sessions, session_id))
    /\ UNCHANGED <<settings, model_candidates, faults, lastStart>>

\* generate_response is called
GenerateResponse(r, session_id, transcript) ==
    /\ req[r].pc = "idle"
    /\ LET overlaps == \E q \in Requests \ {r} : InFlight(q)
       IN /\ overlaps => faults <= MaxOverlapFaults
          /\ overlapped' = (overlapped \/ overlaps)
    /\ LET rq == [req[r] EXCEPT !.session_id = session_id, !.transcript = transcript]
       IN IF StoreHas(sessions, session_id)
          THEN AcceptTurn(r, rq, sessions)
          ELSE RejectTurn(r, rq)
    /\ UNCHANGED <<settings, model_candidates, faults, lastStart>>

AttributeError ==
    [exc |-> "AttributeError", status |-> 0, detail |-> "", errors |-> <<>>]

\* a variant that files the assistant Turn right behind the call's user Turn
CommitInsertsAfterUserTurn(r, rq, parsed) ==
    LET response == Normalise(parsed)
        history == sessions[rq.session_id]
        turn == Turn("assistant", response.narration)
    IN /\ sessions' = [sessions EXCEPT ![rq.session_id] =
                          SubSeq(history, 1, rq.user_at) \o <<turn>>
                              \o SubSeq(history, rq.user_at + 1, Len(history))]
       /\ req' = [req EXCEPT ![r] =
                    [rq EXCEPT !.pc = "synth",
                               !.parsed = parsed,
                               !.response = response,
                               !.assistant_at = rq.user_at + 1,
                               !.appended = Append(@, turn),
                               !.synthesized = Append(@, response.narration)]]


\* lines 59-65: default the fields, append the assistant Turn, call synthesize
Commit(r, rq, parsed) ==
    LET response == Normalise(parsed)
    IN /\ sessions' = StoreAppend(sessions, rq.session_id, "assistant", response.narration)
       /\ req' = [req EXCEPT ![r] =
                    [rq EXCEPT !.pc = "synth",
                               !.parsed = parsed,
                               !.response = response,
                               !.assistant_at = Len(sessions[rq.session_id]) + 1,
                               !.appended = Append(@, Turn("assistant", response.narration)),
                               !.synthesized = Append(@, response.narration)]]

\* a variant that answers an undecodable text with the default fields
RespondRepairs(r, rq, raw_json) ==
    LET got == [rq EXCEPT !.raw_json = raw_json]
        decoded == JsonLoads(raw_json)
    IN IF ~decoded.ok
       THEN Commit(r, got, EmptyDict)
       ELSE IF decoded.type # "dict"
       THEN /\ req' = [req EXCEPT ![r] = Fail(got, AttributeError)]
            /\ UNCHANGED sessions
       ELSE Commit(r, got, decoded.value)

\* a variant that stores the assistant Turn before it decodes the text
RespondAppendsFirst(r, rq, raw_json) ==
    LET got == [rq EXCEPT !.raw_json = raw_json,
                          !.appended = Append(@, Turn("assistant", raw_json))]
        decoded == JsonLoads(raw_json)
    IN /\ sessions' = StoreAppend(sessions, rq.session_id, "assistant", raw_json)
       /\ req' = [req EXCEPT ![r] =
                    IF ~decoded.ok
                    THEN Fail(got, HTTPException(BadGatewayStatus, InvalidJsonDetail))
                    ELSE IF decoded.type # "dict"
                    THEN Fail(got, AttributeError)
                    ELSE [got EXCEPT !.pc = "synth",
                                     !.response = Normalise(decoded.value),
                                     !.synthesized =
                                         Append(@, Normalise(decoded.value).narration)]]

\* lines 54-65, with the text _chat_with_models returned
Respond(r, rq, raw_json) ==
    LET got == [rq EXCEPT !.raw_json = raw_json]
        decoded == JsonLoads(raw_json)
    IN IF ~decoded.ok
       THEN \* except json.JSONDecodeError
            /\ req' = [req EXCEPT ![r] =
                         Fail(got, HTTPException(BadGatewayStatus, InvalidJsonDetail))]
            /\ UNCHANGED sessions
       ELSE IF decoded.type # "dict"
       THEN \* parsed.get on a value that is no dict
            /\ req' = [req EXCEPT ![r] = Fail(got, AttributeError)]
            /\ UNCHANGED sessions
       ELSE Commit(r, got, decoded.value)

\* the backend answers the call in flight
ChatReturn(r, outcome) ==
    /\ req[r].pc = "chat"
    /\ outcome.type # "ok" => faults < FaultLimit
    /\ faults' = IF outcome.type = "ok" THEN faults ELSE faults + 1
    /\ LET rq == Answered(req[r], outcome)
           step == RetryStep(outcome, rq.attempt)
       IN CASE step.kind = "return" -> Respond(r, rq, step.text)
            [] step.kind = "sleep" ->
                 /\ req' = [req EXCEPT ![r] = BeginSleep(rq)]
                 /\ UNCHANGED sessions
            [] step.kind = "raise" ->
                 /\ req' = [req EXCEPT ![r] = ModelFailed(rq, step)]
                 /\ UNCHANGED sessions
    /\ UNCHANGED <<settings, model_candidates, overlapped, lastStart>>

\* asyncio.sleep returns
Wake(r) ==
    /\ req[r].pc = "sleep"
    /\ req' = [req EXCEPT ![r] = EndSleep(req[r])]
    /\ UNCHANGED <<settings, model_candidates, sessions, faults, overlapped, lastStart>>

\* a variant that takes the assistant Turn back when synthesize raises
SynthReturnRollsBack(r, ok) ==
    /\ req[r].pc = "synth"
    /\ req' = [req EXCEPT ![r] =
                 IF ok THEN [req[r] EXCEPT !.pc = "done"]
                 ELSE Fail(req[r], HTTPException(BadGatewayStatus, TtsFailedDetail))]
    /\ sessions' = IF ok THEN sessions
                   ELSE [sessions EXCEPT ![req[r].session_id] = SubSeq(@, 1, Len(@) - 1)]
    /\ UNCHANGED <<settings, model_candidates, faults, overlapped, lastStart>>

\* speech_service.synthesize returns the payload or raises
SynthReturn(r, ok) ==
    /\ req[r].pc = "synth"
    /\ req' = [req EXCEPT ![r] =
                 IF ok THEN [req[r] EXCEPT !.pc = "done"]
                 ELSE Fail(req[r], HTTPException(BadGatewayStatus, TtsFailedDetail))]
    /\ UNCHANGED <<settings, model_candidates, sessions, faults, overlapped, lastStart>>

(***************************************************************************)
(* generate_response on any decoded object                                 *)
(***************************************************************************)
Keys == {"narration", "destination", "directions", "mode"}

\* the objects json.loads may yield: each key missing, empty or filled, and
\* a mode outside {NAVIGATING, SPEAKING}
Objects ==
    {o \in [present : SUBSET Keys,
            narration : {"", "Turn left"},
            destination : {"", "Library"},
            directions : {<<>>, <<"left">>},
            mode : {"", "NAVIGATING", "DANCING"}] :
        /\ "narration" \notin o.present => o.narration = ""
        /\ "destination" \notin o.present => o.destination = ""
        /\ "directions" \notin o.present => o.directions = <<>>
        /\ "mode" \notin o.present => o.mode = ""}

\* a completion that encodes an object
ObjectText == "{...}"

\* the backend answers with a text that json.loads decodes to `parsed`:
\* lines 53-65 of generate_response
DecodedReturn(r, parsed) ==
    /\ req[r].pc = "chat"
    /\ Commit(r, [Answered(req[r], OkOutcome(ObjectText)) EXCEPT !.raw_json = ObjectText],
              parsed)
    /\ UNCHANGED <<settings, model_candidates, faults, overlapped, lastStart>>

\* one generate_response call whose backend answers with any object
NextDecoded ==
    \/ \E id \in SessionIds : StartSession(id)
    \/ \E id \in SessionIds, t \in Transcripts : GenerateResponse("r1", id, t)
    \/ \E parsed \in Objects : DecodedReturn("r1", parsed)
    \/ \E ok \in BOOLEAN : SynthReturn("r1", ok)

SpecDecoded == Init /\ [][NextDecoded]_vars

(***************************************************************************)
(* One generate_response call, with calls that return                      *)
(***************************************************************************)
\* one generate_response call running alone
NextOneCall ==
    \/ \E id \in SessionIds : StartSession(id)
    \/ \E id \in SessionIds, t \in Transcripts : GenerateResponse("r1", id, t)
    \/ \E outcome \in ChatOutcomes : ChatReturn("r1", outcome)
    \/ Wake("r1")
    \/ \E ok \in BOOLEAN : SynthReturn("r1", ok)

\* an awaited backend call returns or raises, and asyncio.sleep returns
CallsReturn ==
    /\ WF_vars(\E outcome \in ChatOutcomes : ChatReturn("r1", outcome))
    /\ WF_vars(Wake("r1"))

SpecOneCall == Init /\ [][NextOneCall]_vars /\ CallsReturn

(***************************************************************************)
(* The system                                                              *)
(***************************************************************************)
Next ==
    \/ \E id \in SessionIds : StartSession(id)
    \/ \E r \in Requests, id \in SessionIds, t \in Transcripts : GenerateResponse(r, id, t)
    \/ \E r \in Requests, outcome \in ChatOutcomes : ChatReturn(r, outcome)
    \/ \E r \in Requests : Wake(r)
    \/ \E r \in Requests, ok \in BOOLEAN : SynthReturn(r, ok)

Spec == Init /\ [][Next]_vars

(***************************************************************************)
(* Properties                                                              *)
(***************************************************************************)
Calls(r) == req[r].calls
Finished(r) == req[r].pc \in {"synth", "done", "failed"}
IsAuthCall(c) == c.type = "HTTPStatusError" /\ c.status = AuthStatus
AuthError == HTTPException(AuthStatus, AuthDetail)
AggregateError(errors) ==
    [exc |-> "HTTPException", status |-> BadGatewayStatus,
     detail |-> AllFailedPrefix, errors |-> errors]

\* C1: a backend call answered with 401 is the last backend call of the
\* orchestration (no retry, no later candidate), and the orchestration has
\* failed with the authentication error.
C1_AuthAbortsFallback ==
    \A r \in Requests : \A i \in 1..Len(Calls(r)) :
        IsAuthCall(Calls(r)[i]) =>
            /\ i = Len(Calls(r))
            /\ req[r].pc = "failed"
            /\ req[r].error = AuthError

\* three candidates, the first answers 401
C1_Witness ==
    \E r \in Requests :
        /\ Len(model_candidates) = 3
        /\ Len(Calls(r)) = 1
        /\ IsAuthCall(Calls(r)[1])
        /\ req[r].pc = "failed"

\* the case of C2: two candidates, the orchestration is over, every call to
\* the first failed with a network error and every call to the second succeeded
TransientThenOk(r) ==
    /\ Len(model_candidates) = 2
    /\ Finished(r)
    /\ Calls(r) # <<>>
    /\ \A i \in 1..Len(Calls(r)) :
          /\ Calls(r)[i].candidate = 1 => Calls(r)[i].type = "RequestError"
          /\ Calls(r)[i].candidate = 2 => Calls(r)[i].type = "ok"

\* C2: with candidates [A, B], A failing with a network error on every call
\* and B succeeding at once, exactly Retries calls went to A, then exactly one
\* to B, and B's text is what the orchestrator returned.
C2_TransientFallsBackAfterRetries ==
    \A r \in Requests :
        TransientThenOk(r) =>
            /\ Len(Calls(r)) = Retries + 1
            /\ \A i \in 1..Retries :
                  /\ Calls(r)[i].candidate = 1
                  /\ Calls(r)[i].model = model_candidates[1]
            /\ Calls(r)[Retries + 1].candidate = 2
            /\ Calls(r)[Retries + 1].model = model_candidates[2]
            /\ req[r].raw_json = Calls(r)[Retries + 1].text

C2_Witness == \E r \in Requests : TransientThenOk(r)

\* the reason _chat_with_retry gives for a candidate whose last call was `c`
ReasonOf(c) ==
    IF c.type = "RequestError" THEN UnreachableDetail
    ELSE IF c.status = RateLimitStatus THEN RateLimitDetail
    ELSE RejectedDetail

\* the last call made to candidate k
LastCallTo(r, k) ==
    LET to == {i \in 1..Len(Calls(r)) : Calls(r)[i].candidate = k}
    IN Calls(r)[CHOOSE i \in to : \A j \in to : j <= i]

\* the case of C3: the orchestration is over and no call succeeded or was
\* answered 401
AllCandidatesFailed(r) ==
    /\ Finished(r)
    /\ Calls(r) # <<>>
    /\ \A i \in 1..Len(Calls(r)) :
          Calls(r)[i].type # "ok" /\ ~IsAuthCall(Calls(r)[i])

\* C3: when every candidate failed for a reason other than authentication,
\* the call fails with one 502 error listing one reason per candidate, in
\* the order of the candidate list.
C3_AggregateErrorListsEachCandidate ==
    \A r \in Requests :
        AllCandidatesFailed(r) =>
            /\ req[r].pc = "failed"
            /\ req[r].error = AggregateError(req[r].errors)
            /\ Len(req[r].errors) = Len(model_candidates)
            /\ \A k \in 1..Len(model_candidates) :
                  /\ \E i \in 1..Len(Calls(r)) : Calls(r)[i].candidate = k
                  /\ req[r].errors[k] =
                        [model |-> model_candidates[k],
                         detail |-> ReasonOf(LastCallTo(r, k))]

C3_Witness ==
    \E r \in Requests : AllCandidatesFailed(r) /\ Len(model_candidates) = 3

\* C4: a successful backend call is the last backend call of the
\* orchestration, and its text is the text the orchestrator returned.
C4_FirstSuccessEndsFallback ==
    \A r \in Requests : \A i \in 1..Len(Calls(r)) :
        Calls(r)[i].type = "ok" =>
            /\ i = Len(Calls(r))
            /\ Finished(r)
            /\ req[r].raw_json = Calls(r)[i].text

\* a success after an earlier failure, with later candidates left untried
C4_Witness ==
    \E r \in Requests :
        /\ Len(Calls(r)) >= 2
        /\ Calls(r)[Len(Calls(r))].type = "ok"
        /\ Calls(r)[Len(Calls(r))].candidate < Len(model_candidates)
        /\ req[r].pc = "done"

IsRejectedCall(c) ==
    c.type = "HTTPStatusError" /\ c.status \notin {AuthStatus, RateLimitStatus}
IsRateLimitCall(c) == c.type = "HTTPStatusError" /\ c.status = RateLimitStatus

\* what _chat_with_models has done once the call numbered i ended candidate
\* k with `detail`: the reason is recorded, and the next candidate is called
\* or, after the last one, the aggregate error is raised
MovedOn(r, i, k, detail) ==
    /\ \A j \in (i + 1)..Len(Calls(r)) : Calls(r)[j].candidate > k
    /\ Len(req[r].errors) >= k
    /\ req[r].errors[k] = [model |-> model_candidates[k], detail |-> detail]
    /\ IF k < Len(model_candidates)
       THEN /\ i < Len(Calls(r))
            /\ Calls(r)[i + 1].candidate = k + 1
            /\ Calls(r)[i + 1].attempt = 0
       ELSE /\ i = Len(Calls(r))
            /\ req[r].pc = "failed"
            /\ req[r].error = AggregateError(req[r].errors)

\* C5: a call answered with a status other than 401 and 429 is the last call
\* to its candidate, on whatever attempt it came: the rejection is recorded
\* and the next candidate is called.
C5_RejectionIsNotRetried ==
    \A r \in Requests : \A i \in 1..Len(Calls(r)) :
        IsRejectedCall(Calls(r)[i]) =>
            MovedOn(r, i, Calls(r)[i].candidate, RejectedDetail)

\* a rejection on a later attempt, followed by a call to the next candidate
C5_Witness ==
    \E r \in Requests : \E i \in 1..Len(Calls(r)) :
        /\ IsRejectedCall(Calls(r)[i])
        /\ Calls(r)[i].attempt > 0
        /\ i < Len(Calls(r))

WaitsOf(r, k) == {w \in 1..Len(req[r].waits) : req[r].waits[w].candidate = k}

\* C6: a call answered 429 before the last attempt is followed by a wait and
\* then another call to the same candidate; on the last attempt the candidate
\* has failed with the rate-limit reason and the next candidate is called.
C6_RateLimitRetriedThenEscalated ==
    \A r \in Requests : \A i \in 1..Len(Calls(r)) :
        IsRateLimitCall(Calls(r)[i]) =>
            LET k == Calls(r)[i].candidate
                a == Calls(r)[i].attempt
            IN IF a < Retries - 1
               THEN /\ Cardinality(WaitsOf(r, k)) >= a + 1
                    /\ \/ i = Len(Calls(r)) /\ req[r].pc = "sleep"
                       \/ /\ i < Len(Calls(r))
                          /\ Calls(r)[i + 1].candidate = k
                          /\ Calls(r)[i + 1].attempt = a + 1
               ELSE MovedOn(r, i, k, RateLimitDetail)

\* a 429 on the last attempt, followed by a call to the next candidate
C6_Witness ==
    \E r \in Requests : \E i \in 1..Len(Calls(r)) :
        /\ IsRateLimitCall(Calls(r)[i])
        /\ Calls(r)[i].attempt = Retries - 1
        /\ i < Len(Calls(r))
        /\ Calls(r)[i + 1].candidate = Calls(r)[i].candidate + 1

\* C7: generate_response on a session the store does not hold fails with
\* UnknownSessionError in the same step, with the store unchanged and no
\* backend or synthesize call; the failed call does nothing afterwards.
C7_UnknownSessionRejected ==
    [][\A r \in Requests :
          /\ (req[r].pc = "idle" /\ req'[r].pc # "idle"
                 /\ ~StoreHas(sessions, req'[r].session_id))
               => /\ req'[r].pc = "failed"
                  /\ req'[r].error = UnknownSessionError
                  /\ sessions' = sessions
                  /\ req'[r].calls = <<>>
                  /\ req'[r].synthesized = <<>>
                  /\ req'[r].appended = <<>>
          /\ req[r].error = UnknownSessionError => req'[r] = req[r]]_vars

\* a call on a session the store does not hold has failed
C7_Witness ==
    \E r \in Requests :
        /\ req[r].pc = "failed"
        /\ req[r].error = UnknownSessionError
        /\ ~StoreHas(sessions, req[r].session_id)

InvalidJsonError == HTTPException(BadGatewayStatus, InvalidJsonDetail)
SynthesisError == HTTPException(BadGatewayStatus, TtsFailedDetail)

\* the orchestrator returned `raw_json` to generate_response
GotRaw(r) == Calls(r) # <<>> /\ Calls(r)[Len(Calls(r))].type = "ok"

AssistantTurnsOf(turns) ==
    {k \in 1..Len(turns) : turns[k].role = "assistant"}

\* the generate_response calls on session `id` that reached line 64
Committed(id) ==
    {q \in Requests : req[q].session_id = id /\ req[q].synthesized # <<>>}

\* C8: when the returned text does not decode, the call has failed with the
\* 502 "invalid JSON" error, it has appended no assistant Turn, and no field
\* was defaulted or synthesized.
C8_UndecodableTextFails ==
    \A r \in Requests :
        (GotRaw(r) /\ ~JsonLoads(req[r].raw_json).ok) =>
            /\ req[r].pc = "failed"
            /\ req[r].error = InvalidJsonError
            /\ \A k \in 1..Len(req[r].appended) : req[r].appended[k].role # "assistant"
            /\ req[r].response = NoResponse
            /\ req[r].synthesized = <<>>
            /\ Cardinality(AssistantTurnsOf(sessions[req[r].session_id]))
                  = 1 + Cardinality(Committed(req[r].session_id))

C8_Witness ==
    \E r \in Requests :
        /\ GotRaw(r)
        /\ req[r].raw_json = "not json"
        /\ req[r].pc = "failed"

\* the failures of session lookup, model orchestration and validation
AbortedTurn(r) ==
    /\ req[r].pc = "failed"
    /\ \/ req[r].error = UnknownSessionError
       \/ req[r].error = AuthError
       \/ req[r].error = AggregateError(req[r].errors)
       \/ req[r].error = InvalidJsonError
       \/ req[r].error = AttributeError

\* C9: a call that failed in session lookup, in the fallback loop or in
\* validation has appended no assistant Turn and has not called synthesize;
\* the session holds the greeting and one assistant Turn per call that
\* reached line 64, and no other.
C9_FailureAbortsBeforeCommit ==
    \A r \in Requests :
        AbortedTurn(r) =>
            /\ \A k \in 1..Len(req[r].appended) : req[r].appended[k].role # "assistant"
            /\ req[r].synthesized = <<>>
            /\ StoreHas(sessions, req[r].session_id) =>
                  Cardinality(AssistantTurnsOf(sessions[req[r].session_id]))
                      = 1 + Cardinality(Committed(req[r].session_id))

\* a call on an existing session failed with every candidate exhausted
C9_Witness ==
    \E r \in Requests :
        /\ req[r].pc = "failed"
        /\ req[r].error = AggregateError(req[r].errors)
        /\ req[r].appended = <<Turn("user", req[r].transcript)>>

SynthFailed(r) == req[r].pc = "failed" /\ req[r].error = SynthesisError

\* C10: when synthesize has failed the call has failed with the synthesis
\* error, and the assistant Turn holding the narration, appended before
\* synthesize was called, is still in the session history.
C10_SynthesisFailureKeepsTurn ==
    \A r \in Requests :
        SynthFailed(r) =>
            LET turns == sessions[req[r].session_id]
                narration == req[r].response.narration
            IN /\ req[r].synthesized = <<narration>>
               /\ req[r].appended =
                     <<Turn("user", req[r].transcript), Turn("assistant", narration)>>
               /\ \E k \in 2..Len(turns) :
                     /\ turns[k] = Turn("assistant", narration)
                     /\ \E j \in 1..(k - 1) : turns[j] = Turn("user", req[r].transcript)
               /\ Cardinality(AssistantTurnsOf(turns))
                     = 1 + Cardinality(Committed(req[r].session_id))

C10_Witness == \E r \in Requests : SynthFailed(r)

GreetingTurn == Turn("assistant", settings.default_greeting)

NoDuplicates(s) == \A i, j \in 1..Len(s) : s[i] = s[j] => i = j

\* C12: the candidate list holds no identifier twice and, when a preferred
\* model is configured, the preferred model is its first element.
C12_CandidatesDedupedPreferredFirst ==
    /\ NoDuplicates(model_candidates)
    /\ settings.openrouter_model # "" =>
          model_candidates[1] = settings.openrouter_model

\* the object holds a non-empty text under `key`
HoldsText(parsed, key) == key \in parsed.present /\ parsed[key] # ""

\* C13: each field of the response is defaulted on its own: a missing or
\* empty narration, destination or mode becomes the fallback phrase,
\* "General" or "SPEAKING", missing directions become the empty sequence, and
\* every field the object holds non-empty is returned as it is.
C13_FieldsDefaultIndependently ==
    \A r \in Requests :
        req[r].synthesized # <<>> =>
            LET parsed == req[r].parsed
                out == req[r].response
            IN /\ out.narration =
                     IF HoldsText(parsed, "narration") THEN parsed.narration
                     ELSE "Let me find that for you."
               /\ out.destination =
                     IF HoldsText(parsed, "destination") THEN parsed.destination
                     ELSE "General"
               /\ out.directions =
                     IF "directions" \in parsed.present THEN parsed.directions
                     ELSE <<>>
               /\ out.mode =
                     IF HoldsText(parsed, "mode") THEN parsed.mode ELSE "SPEAKING"

\* an object that lacks only the destination, with a mode outside the enum
C13_Witness ==
    \E r \in Requests :
        /\ req[r].pc = "done"
        /\ req[r].parsed.present = {"narration", "directions", "mode"}
        /\ req[r].parsed.mode = "DANCING"
        /\ req[r].response =
              [narration |-> "Turn left", destination |-> "General",
               directions |-> <<"left">>, mode |-> "DANCING"]

\* s is an initial part of t
IsPrefix(s, t) == Len(s) <= Len(t) /\ SubSeq(t, 1, Len(s)) = s

RECURSIVE AppendsOn(_, _)
\* how many Turns the calls of `rs` appended to session `id`
AppendsOn(rs, id) ==
    IF rs = {} THEN 0
    ELSE LET r == CHOOSE x \in rs : TRUE
         IN (IF req[r].session_id = id THEN Len(req[r].appended) ELSE 0)
                + AppendsOn(rs \ {r}, id)

\* every Turn appended is in the history once, where its append put it, and
\* the history a call read is the Turns appended before its read, in order
HistoryIsAppendLog ==
    /\ \A id \in DOMAIN sessions : Len(sessions[id]) = 1 + AppendsOn(Requests, id)
    /\ \A r \in Requests :
          LET rq == req[r]
          IN /\ rq.user_at > 0 =>
                   /\ sessions[rq.session_id][rq.user_at] = Turn("user", rq.transcript)
                   /\ rq.messages = <<Turn("system", SYSTEM_PROMPT)>>
                                       \o SubSeq(sessions[rq.session_id], 1, rq.user_at)
             /\ rq.assistant_at > 0 =>
                   sessions[rq.session_id][rq.assistant_at] =
                       Turn("assistant", rq.response.narration)

\* a step only adds Turns at the end of a history
HistoryOnlyGrows ==
    \A id \in DOMAIN sessions :
        /\ id \in DOMAIN sessions'
        /\ IsPrefix(sessions[id], sessions'[id])

Classified(r) ==
    {UnknownSessionError, AuthError, AggregateError(req[r].errors),
     InvalidJsonError, SynthesisError}

\* C15: every generate_response call ends either with its narration stored as
\* an assistant Turn and the speech payload returned, or with one error of
\* the taxonomy (unknown session, auth configuration, upstream unavailable,
\* upstream contract, synthesis), whatever the backend answered, also a text
\* that decodes to a value that is no object.
C15_EndsDoneOrClassified ==
    \A r \in Requests :
        /\ req[r].pc = "done" =>
              /\ req[r].error = NoError
              /\ req[r].assistant_at > 0
              /\ req[r].synthesized = <<req[r].response.narration>>
        /\ req[r].pc = "failed" => req[r].error \in Classified(r)

\* the calls to candidate k, and its waits, in the order they happened
CallsTo(r, k) == SelectSeq(Calls(r), LAMBDA c : c.candidate = k)
WaitsFor(r, k) == SelectSeq(req[r].waits, LAMBDA w : w.candidate = k)

\* a failure _chat_with_retry may retry: a network error or a 429
IsRetriableCall(c) == c.type = "RequestError" \/ IsRateLimitCall(c)

\* C16: for one candidate a wait happens only between a retried failure
\* (network error or 429) and the next attempt, never after the last attempt;
\* the k-th wait of a candidate lasts 2^(k-1), so a candidate failing
\* retriably on all attempts waits Retries-1 times, for 1, 2, ...; the delay
\* starts again at 1 for each candidate.
C16_BackoffDoublesPerCandidate ==
    \A r \in Requests : \A k \in 1..Len(model_candidates) :
        LET calls == CallsTo(r, k)
            waits == WaitsFor(r, k)
            sleeping == req[r].pc = "sleep" /\ req[r].candidate = k
        IN /\ \A j \in 1..Len(waits) : waits[j].delay = 2 ^ (j - 1)
           /\ Len(waits) <= Retries - 1
           \* the j-th wait follows the j-th call, which failed retriably
           \* before the last attempt, and is followed by the next call
           /\ \A j \in 1..Len(waits) :
                 /\ j <= Len(calls)
                 /\ IsRetriableCall(calls[j])
                 /\ calls[j].attempt = j - 1
                 /\ calls[j].attempt < Retries - 1
                 /\ (j < Len(waits) \/ ~sleeping) => Len(calls) > j
           \* no wait follows any other call
           /\ Len(calls) <= Len(waits) + 1
           /\ sleeping => Len(calls) = Len(waits)
           /\ (/\ Len(calls) = Retries
               /\ \A j \in 1..Retries : IsRetriableCall(calls[j]))
                 => [j \in 1..Len(waits) |-> waits[j].delay] = <<1, 2>>

\* a candidate that failed retriably three times, with both kinds of failure,
\* and has been given up
C16_Witness ==
    \E r \in Requests :
        /\ Finished(r)
        /\ Len(CallsTo(r, 1)) = Retries
        /\ \A j \in 1..Retries : IsRetriableCall(CallsTo(r, 1)[j])
        /\ \E j \in 1..Retries : IsRateLimitCall(CallsTo(r, 1)[j])
        /\ \E j \in 1..Retries : CallsTo(r, 1)[j].type = "RequestError"
        /\ req[r].waits = <<[candidate |-> 1, delay |-> 1], [candidate |-> 1, delay |-> 2]>>

\* _chat_with_models is running: a backend call or a backoff wait is pending
Orchestrating(r) == req[r].pc \in {"chat", "sleep"}

\* no candidate is called more than Retries times, its calls count the
\* attempts 0, 1, 2 whatever failed before, and the calls of one
\* orchestration number at most Retries for each candidate
CallsBounded ==
    \A r \in Requests :
        /\ Len(Calls(r)) <= Retries * Len(model_candidates)
        /\ \A k \in 1..Len(model_candidates) :
              /\ Len(CallsTo(r, k)) <= Retries
              /\ \A j \in 1..Len(CallsTo(r, k)) : CallsTo(r, k)[j].attempt = j - 1

\* C17: the fallback orchestration always ends, each candidate gets at most
\* Retries backend calls whatever mix of network errors and 429 answers it
\* gives (one attempt counter for both), and one orchestration issues at
\* most Retries calls per candidate in total.
C17_OrchestrationEndsWithinBound ==
    /\ []CallsBounded
    /\ \A r \in Requests : Orchestrating(r) ~> Finished(r)

\* a candidate answered 429, then failed on the network, and got its third
\* and last call
C17_Witness ==
    \E r \in Requests :
        /\ Finished(r)
        /\ Len(CallsTo(r, 1)) = Retries
        /\ IsRateLimitCall(CallsTo(r, 1)[1])
        /\ CallsTo(r, 1)[2].type = "RequestError"
        /\ CallsTo(r, 1)[3].attempt = Retries - 1
        /\ Len(req[r].waits) = Retries - 1

\* the context a call passed to the backend: the system instruction, then
\* the history as it was stored when the call read it
ContextIsPromptThenHistory(r) ==
    LET rq == req[r]
    IN /\ Len(rq.messages) = rq.user_at + 1
       /\ rq.messages[1] = Turn("system", SYSTEM_PROMPT)
       /\ \A i \in 2..Len(rq.messages) :
             /\ rq.messages[i].role # "system"
             /\ rq.messages[i] = sessions[rq.session_id][i - 1]

\* C18: the system instruction is prepended when the backend is called and
\* never stored: every stored Turn has role user or assistant, and the
\* context generate_response passes to the backend is one system Turn
\* followed by the history it read, in stored order.
C18_SystemPromptNeverStored ==
    /\ \A id \in DOMAIN sessions : \A i \in 1..Len(sessions[id]) :
          sessions[id][i].role \in {"user", "assistant"}
    /\ \A r \in Requests : req[r].calls # <<>> => ContextIsPromptThenHistory(r)

\* a call on a session that already holds a completed exchange: its context
\* is the system Turn and four stored Turns
C18_Witness ==
    \E r \in Requests :
        /\ req[r].pc = "chat"
        /\ Len(req[r].messages) = 5
        /\ req[r].messages[1].role = "system"
        /\ req[r].messages[5] = Turn("user", req[r].transcript)
        /\ Len(sessions[req[r].session_id]) = 4

\* C19: also when generate_response calls run at once on one session, the
\* context a call sends to the backend ends with the user Turn of its own
\* transcript, and the assistant Turn it appends later directly follows its
\* own user Turn in the stored history.
C19_AssistantTurnFollowsOwnUserTurn ==
    \A r \in Requests :
        /\ req[r].calls # <<>> =>
              /\ req[r].messages[Len(req[r].messages)] = Turn("user", req[r].transcript)
              /\ Len(req[r].messages) = req[r].user_at + 1
        /\ req[r].assistant_at > 0 => req[r].assistant_at = req[r].user_at + 1

\* the call failed in the model orchestration (401 or every candidate
\* failed) or in the validation of the completion
FailedBeforeCommit(r) ==
    /\ req[r].pc = "failed"
    /\ \/ req[r].error = AuthError
       \/ req[r].error = AggregateError(req[r].errors)
       \/ req[r].error = InvalidJsonError

\* C20: a generate_response call on an existing session that fails in the
\* model orchestration or in the validation of the completion leaves the
\* history as it was before the call: no Turn of the failed call, user or
\* assistant, is in the store.
C20_FailureLeavesHistoryUnchanged ==
    \A r \in Requests :
        FailedBeforeCommit(r) =>
            /\ req[r].appended = <<>>
            /\ Len(sessions[req[r].session_id])
                  = 1 + AppendsOn(Requests \ {r}, req[r].session_id)

=============================================================================
